---- MODULE Spec2Model ----
(***************************************************************************)
(* A model of the scripts of openrouter-mcp-multimodal:                    *)
(*   src/convert_to_base64.py        the image -> data URI converter (CLI) *)
(*   src/examples/python_example.py  the MCP chat client example           *)
(*   src/openrouter-image-python.py  the three ways of sending an image    *)
(* Text is modelled as sequences of one-character strings, bytes as        *)
(* integers in 0..255.                                                     *)
(***************************************************************************)
EXTENDS Integers, Sequences, FiniteSets, TLC

\* ------------------------------------------------------------------------
\* Bounds of the model
\* ------------------------------------------------------------------------

\* longest file content, in bytes
MaxLen ==
    4

\* ------------------------------------------------------------------------
\* Characters and strings
\* ------------------------------------------------------------------------

UpperLetters ==
    << "A","B","C","D","E","F","G","H","I","J","K","L","M",
       "N","O","P","Q","R","S","T","U","V","W","X","Y","Z" >>

LowerLetters ==
    << "a","b","c","d","e","f","g","h","i","j","k","l","m",
       "n","o","p","q","r","s","t","u","v","w","x","y","z" >>

Digits ==
    << "0","1","2","3","4","5","6","7","8","9" >>

\* str.lower() on one character (ASCII letters; every other character of the
\* model is left as it is, as Python leaves it)
LowerChar(c) ==
    IF \E i \in 1..26 : UpperLetters[i] = c
    THEN LowerLetters[CHOOSE i \in 1..26 : UpperLetters[i] = c]
    ELSE c

\* str.lower()
lower(s) ==
    [i \in 1..Len(s) |-> LowerChar(s[i])]

\* str.rfind(ch): the last index of ch in s, 0 when absent (Python's -1,
\* shifted by the 1-based indexing of sequences)
rfind(s, ch) ==
    IF \E i \in 1..Len(s) : s[i] = ch
    THEN CHOOSE i \in 1..Len(s) : s[i] = ch /\ \A j \in (i+1)..Len(s) : s[j] # ch
    ELSE 0

\* os.path.splitext(p)[1] (posixpath): the extension starts at the last dot
\* after the last "/", unless only dots stand between that "/" and the dot
splitext_ext(p) ==
    LET sepIndex == rfind(p, "/")
        dotIndex == rfind(p, ".")
    IN  IF dotIndex > sepIndex
           /\ \E k \in (sepIndex+1)..(dotIndex-1) : p[k] # "."
        THEN SubSeq(p, dotIndex, Len(p))
        ELSE << >>

\* ------------------------------------------------------------------------
\* convert_to_base64.py: media type
\* ------------------------------------------------------------------------

ImagePng  == << "i","m","a","g","e","/","p","n","g" >>
ImageJpeg == << "i","m","a","g","e","/","j","p","e","g" >>
ImageGif  == << "i","m","a","g","e","/","g","i","f" >>
ImageWebp == << "i","m","a","g","e","/","w","e","b","p" >>
ImageBmp  == << "i","m","a","g","e","/","b","m","p" >>
OctetStream ==
    << "a","p","p","l","i","c","a","t","i","o","n","/",
       "o","c","t","e","t","-","s","t","r","e","a","m" >>

ExtPng  == << ".","p","n","g" >>
ExtJpg  == << ".","j","p","g" >>
ExtJpeg == << ".","j","p","e","g" >>
ExtGif  == << ".","g","i","f" >>
ExtWebp == << ".","w","e","b","p" >>
ExtBmp  == << ".","b","m","p" >>

\* a faulty variant of file_ext: the suffix is looked up as written
file_ext_as_written(image_path) ==
    splitext_ext(image_path)

\* file_ext = os.path.splitext(image_path)[1].lower()
file_ext(image_path) ==
    lower(splitext_ext(image_path))

\* the dictionary's .get(file_ext, 'application/octet-stream')
mime_type(image_path) ==
    LET e == file_ext(image_path)
    IN  CASE e = ExtPng  -> ImagePng
          [] e = ExtJpg  -> ImageJpeg
          [] e = ExtJpeg -> ImageJpeg
          [] e = ExtGif  -> ImageGif
          [] e = ExtWebp -> ImageWebp
          [] e = ExtBmp  -> ImageBmp
          [] OTHER       -> OctetStream

\* ------------------------------------------------------------------------
\* convert_to_base64.py: base64
\* ------------------------------------------------------------------------

\* the ASCII code base64.b64encode emits for a 6-bit value
B64Code(v) ==
    CASE v < 26 -> 65 + v
      [] v >= 26 /\ v < 52 -> 97 + (v - 26)
      [] v >= 52 /\ v < 62 -> 48 + (v - 52)
      [] v = 62 -> 43
      [] OTHER  -> 47

\* the ASCII code of the padding character "="
PadCode ==
    61

\* a faulty variant of b64encode_tail: a short last group is zero-filled and encoded
\* whole, with no padding character
b64encode_tail_nopad(b) ==
    IF Len(b) = 1
    THEN << B64Code(b[1] \div 4), B64Code((b[1] % 4) * 16), B64Code(0), B64Code(0) >>
    ELSE << B64Code(b[1] \div 4), B64Code((b[1] % 4) * 16 + b[2] \div 16),
            B64Code((b[2] % 16) * 4), B64Code(0) >>

\* base64.b64encode on a last group of one or two bytes
b64encode_tail(b) ==
    IF Len(b) = 1
    THEN << B64Code(b[1] \div 4), B64Code((b[1] % 4) * 16), PadCode, PadCode >>
    ELSE << B64Code(b[1] \div 4), B64Code((b[1] % 4) * 16 + b[2] \div 16),
            B64Code((b[2] % 16) * 4), PadCode >>

\* base64.b64encode on a full group of three bytes
b64encode_group(x, y, z) ==
    << B64Code(x \div 4), B64Code((x % 4) * 16 + y \div 16),
       B64Code((y % 16) * 4 + z \div 64), B64Code(z % 64) >>

\* a faulty variant of b64encode: base64.encodebytes, which ends its output with a
\* newline (ASCII 10)
RECURSIVE b64encode_plain(_)
b64encode_plain(b) ==
    IF Len(b) = 0 THEN << >>
    ELSE IF Len(b) < 3 THEN b64encode_tail(b)
    ELSE b64encode_group(b[1], b[2], b[3]) \o b64encode_plain(SubSeq(b, 4, Len(b)))

encodebytes(b) ==
    IF Len(b) = 0 THEN << >> ELSE b64encode_plain(b) \o << 10 >>

\* base64.b64encode(img_data): the bytes of the encoded text
RECURSIVE b64encode(_)
b64encode(b) ==
    IF Len(b) = 0 THEN << >>
    ELSE IF Len(b) < 3 THEN b64encode_tail(b)
    ELSE b64encode_group(b[1], b[2], b[3]) \o b64encode(SubSeq(b, 4, Len(b)))

\* bytes.decode('utf-8') on one byte below 128
AsciiChar(c) ==
    CASE c >= 65 /\ c <= 90  -> UpperLetters[c - 64]
      [] c >= 97 /\ c <= 122 -> LowerLetters[c - 96]
      [] c >= 48 /\ c <= 57  -> Digits[c - 47]
      [] c = 43 -> "+"
      [] c = 47 -> "/"
      [] c = 61 -> "="
      [] c = 10 -> "\n"
      [] OTHER  -> "?"

\* .decode('utf-8') of ASCII bytes
decode_utf8(bs) ==
    [i \in 1..Len(bs) |-> AsciiChar(bs[i])]

DataPrefix == << "d","a","t","a",":" >>
Base64Sep  == << ";","b","a","s","e","6","4","," >>

\* a faulty variant of data_uri: the separator is written without its comma
data_uri_nocomma(mime, base64_data) ==
    DataPrefix \o mime \o << ";","b","a","s","e","6","4" >> \o base64_data

\* f"data:{mime_type};base64,{base64_data}"
data_uri(mime, base64_data) ==
    DataPrefix \o mime \o Base64Sep \o base64_data

\* ------------------------------------------------------------------------
\* convert_to_base64.py: the file system seen by one run, and the run's state
\* ------------------------------------------------------------------------

\* Python's None, and a returned value
None ==
    [some |-> FALSE, val |-> << >>]

Some(v) ==
    [some |-> TRUE, val |-> v]

VARIABLES
    image_path,   \* args.image_path
    file,         \* the resource at image_path: [status, data]
    output,       \* args.output: "none", or how the output path behaves
    pc,           \* position of main()
    base64_data,  \* what convert_image_to_base64 returned to main
    stderr,       \* lines printed to sys.stderr
    stdout,       \* lines printed to sys.stdout
    out_file,     \* the output path: [opened, content]
    exit_code,    \* what main() returned, -1 while it runs
    lib_fs,       \* library use: the files by path
    lib_calls,    \* library use: the calls made so far, with what each returned
    chat,         \* python_example.py: the state of MCPClient and its loop
    img           \* openrouter-image-python.py: the state of main()

encVars ==
    << image_path, file, output, pc, base64_data, stderr, stdout, out_file, exit_code >>

libVars ==
    << lib_fs, lib_calls >>

vars ==
    << image_path, file, output, pc, base64_data, stderr, stdout, out_file, exit_code,
       lib_fs, lib_calls, chat, img >>

\* byte values the files of the model are made of (0xFF 0xD8 opens a JPEG)
ByteVals ==
    { 0, 216, 255 }

RECURSIVE SeqsUpTo(_, _)
SeqsUpTo(S, n) ==
    IF n = 0 THEN { << >> }
    ELSE LET shorter == SeqsUpTo(S, n - 1)
         IN  shorter \cup { Append(s, x) : s \in { t \in shorter : Len(t) = n - 1 }, x \in S }

ByteSeqs ==
    SeqsUpTo(ByteVals, MaxLen)

Dirs ==
    { << >>, << "d",".","p","n","g","/" >>, << "/","n","o","/" >> }

Stems ==
    { << >>, << "a" >>, << "." >>, << "I",".","b" >> }

Exts ==
    { << >>, << "." >>,
      << ".","p","n","g" >>, << ".","P","N","G" >>, << ".","P","n","g" >>,
      << ".","j","p","g" >>, << ".","J","P","G" >>, << ".","j","p","e","g" >>,
      << ".","J","p","e","G" >>, << ".","g","i","f" >>, << ".","G","I","F" >>,
      << ".","w","e","b","p" >>, << ".","W","E","B","P" >>,
      << ".","b","m","p" >>, << ".","B","M","P" >>,
      << ".","b","i","n" >>, << ".","p","n" >>, << ".","p","n","g","x" >>,
      << ".","j","p","e" >> }

Paths ==
    { d \o s \o e : d \in Dirs, s \in Stems, e \in Exts }

\* the paths every content of the model is tried with: photo.JPG,
\* archive.bin, and a path with no suffix
CorePaths ==
    { << "p","h","o","t","o",".","J","P","G" >>,
      << "a","r","c","h","i","v","e",".","b","i","n" >>,
      << "/","n","o","/","f" >> }

\* the contents every path of the model is tried with
ShortSeqs ==
    { b \in ByteSeqs : Len(b) <= 1 }

\* a path that can name a regular file: not empty, not ending in "/", and
\* its last component neither "." nor ".."
NamesFile(p) ==
    LET name == SubSeq(p, rfind(p, "/") + 1, Len(p))
    IN  Len(name) > 0 /\ name # << "." >> /\ name # << ".", "." >>

\* the resources a path can name, with contents drawn from `contents`
Files(p, contents) ==
    LET withData == IF NamesFile(p) THEN { "ok", "readerr" } ELSE { }
        noData   == (IF NamesFile(p) THEN { "denied" } ELSE { })
                    \cup (IF Len(p) > 0 THEN { "isdir" } ELSE { })
                    \cup { "missing" }
    IN  { [status |-> s, data |-> d] : s \in withData, d \in contents }
        \cup { [status |-> s, data |-> << >>] : s \in noData }

\* the exception open() or read() raises, by Python class name
OpenError(status) ==
    CASE status = "missing" -> "FileNotFoundError"
      [] status = "denied"  -> "PermissionError"
      [] status = "isdir"   -> "IsADirectoryError"
      [] status = "readerr" -> "OSError"
      [] OTHER              -> "none"

\* a faulty variant of convert_image_to_base64: a read that fails part way returns
\* the URI of the bytes read so far
convert_partial(path, f) ==
    IF f.status = "ok"
    THEN [ret |-> Some(data_uri(mime_type(path), decode_utf8(b64encode(f.data)))),
          err |-> "none"]
    ELSE IF f.status = "readerr" /\ Len(f.data) > 0
    THEN [ret |-> Some(data_uri(mime_type(path),
                       decode_utf8(b64encode(SubSeq(f.data, 1, Len(f.data) - 1))))),
          err |-> OpenError(f.status)]
    ELSE [ret |-> None, err |-> OpenError(f.status)]

\* a faulty variant of convert_image_to_base64: the URI carries the number of the
\* call, state kept from one call to the next
convert_counting(path, f) ==
    IF f.status = "ok"
    THEN [ret |-> Some(data_uri(mime_type(path), decode_utf8(b64encode(f.data)))
                       \o << "#" >> \o [i \in 1..Len(lib_calls) |-> "|"]),
          err |-> "none"]
    ELSE [ret |-> None, err |-> OpenError(f.status)]

\* convert_image_to_base64(image_path): what it returns and the exception it
\* printed ("none" when it printed nothing)
convert_image_to_base64(path, f) ==
    IF f.status = "ok"
    THEN [ret |-> Some(data_uri(mime_type(path), decode_utf8(b64encode(f.data)))),
          err |-> "none"]
    ELSE [ret |-> None, err |-> OpenError(f.status)]

\* ------------------------------------------------------------------------
\* convert_to_base64.py: main()
\* ------------------------------------------------------------------------

\* base64_data[:100] of the console preview
PreviewLen ==
    100

\* base64_data[:20] of the request template
UrlHeadLen ==
    20

Line(tag, text) ==
    [tag |-> tag, text |-> text]

\* s[:n]
Prefix(s, n) ==
    SubSeq(s, 1, IF Len(s) < n THEN Len(s) ELSE n)

\* how the path of -o/--output behaves; "none" when the flag is absent
Outputs ==
    { "none", "writable", "unwritable" }

EncInit ==
    /\ \/ image_path \in Paths /\ file \in Files(image_path, ShortSeqs)
       \/ image_path \in CorePaths /\ file \in Files(image_path, ByteSeqs)
    /\ output \in Outputs
    /\ pc = "check_exists"
    /\ base64_data = None
    /\ stderr = << >>
    /\ stdout = << >>
    /\ out_file = [opened |-> FALSE, content |-> None]
    /\ exit_code = -1

\* main(), lines 52-56: the file is looked for before it is converted
Main_CheckExists ==
    /\ pc = "check_exists"
    /\ IF file.status = "missing"
       THEN /\ stderr' = Append(stderr, Line("Error: File not found", image_path))
            /\ exit_code' = 1
            /\ pc' = "exit"
       ELSE /\ pc' = "convert"
            /\ UNCHANGED << stderr, exit_code >>
    /\ UNCHANGED << image_path, file, output, base64_data, stdout, out_file >>
    /\ UNCHANGED << libVars, chat, img >>

\* between the existence check and open() the file can be removed
File_Vanishes ==
    /\ pc = "convert"
    /\ file.status # "missing"
    /\ file' = [status |-> "missing", data |-> << >>]
    /\ UNCHANGED << image_path, output, pc, base64_data, stderr, stdout, out_file, exit_code >>
    /\ UNCHANGED << libVars, chat, img >>

\* a faulty variant of Main_Convert: the run goes on to the output step whatever the
\* conversion returned
Main_Convert_unchecked ==
    /\ pc = "convert"
    /\ LET r == convert_image_to_base64(image_path, file)
       IN  /\ base64_data' = r.ret
           /\ stderr' = IF r.err = "none" THEN stderr
                        ELSE Append(stderr, Line("Error", << r.err >>))
           /\ pc' = "output"
           /\ UNCHANGED exit_code
    /\ UNCHANGED << image_path, file, output, stdout, out_file >>
    /\ UNCHANGED << libVars, chat, img >>

\* main(), lines 58-61: the conversion, and the return on its failure
Main_Convert ==
    /\ pc = "convert"
    /\ LET r == convert_image_to_base64(image_path, file)
       IN  /\ base64_data' = r.ret
           /\ stderr' = IF r.err = "none" THEN stderr
                        ELSE Append(stderr, Line("Error", << r.err >>))
           /\ IF (~r.ret.some) \/ Len(r.ret.val) = 0
              THEN exit_code' = 1 /\ pc' = "exit"
              ELSE pc' = "output" /\ UNCHANGED exit_code
    /\ UNCHANGED << image_path, file, output, stdout, out_file >>
    /\ UNCHANGED << libVars, chat, img >>

\* save_base64_to_file(base64_data, output_path): the file it leaves, what
\* it prints and what it returns
save_base64_to_file(data, out) ==
    IF out = "writable"
    THEN [file |-> [opened |-> TRUE, content |-> Some(data)],
          out |-> << Line("Base64 data saved", << >>) >>,
          err |-> << >>,
          ret |-> TRUE]
    ELSE [file |-> [opened |-> FALSE, content |-> None],
          out |-> << >>,
          err |-> << Line("Error saving file", << >>) >>,
          ret |-> FALSE]

\* main(), lines 64-67 and 85: the URI is written to the output path
Main_Save ==
    /\ pc = "output"
    /\ output # "none"
    /\ LET r == save_base64_to_file(base64_data.val, output)
       IN  /\ out_file' = r.file
           /\ stdout' = stdout \o r.out
           /\ stderr' = stderr \o r.err
           /\ exit_code' = IF r.ret THEN 0 ELSE 1
    /\ pc' = "exit"
    /\ UNCHANGED << image_path, file, output, base64_data >>
    /\ UNCHANGED << libVars, chat, img >>

\* main(), lines 68-85: the preview, the length and the request template
Main_Print ==
    /\ pc = "output"
    /\ output = "none"
    /\ LET d == base64_data.val
           preview == IF Len(d) > PreviewLen
                      THEN Prefix(d, PreviewLen) \o << ".",".","." >>
                      ELSE d
       IN  stdout' = stdout \o << Line("Base64 Image Data", preview),
                                  Line("Total length", << Len(d) >>),
                                  Line("url", Prefix(d, UrlHeadLen) \o << ".",".","." >>) >>
    /\ exit_code' = 0
    /\ pc' = "exit"
    /\ UNCHANGED << image_path, file, output, base64_data, stderr, out_file >>
    /\ UNCHANGED << libVars, chat, img >>

EncNext ==
    \/ Main_CheckExists
    \/ File_Vanishes
    \/ Main_Convert
    \/ Main_Save
    \/ Main_Print

\* ------------------------------------------------------------------------
\* Reading a data URI back: what a consumer of the URI does
\* ------------------------------------------------------------------------

\* the standard base64 alphabet, RFC 4648 table 1
StdAlphabet ==
    UpperLetters \o LowerLetters \o Digits \o << "+", "/" >>

\* the 6-bit value of a symbol of the alphabet; "=" counts as 0, any other
\* character is rejected (-1)
Sextet(ch) ==
    IF ch = "=" THEN 0
    ELSE IF \E i \in 1..64 : StdAlphabet[i] = ch
    THEN (CHOOSE i \in 1..64 : StdAlphabet[i] = ch) - 1
    ELSE -1

\* a standard base64 decoder; << -1 >> when the text is not valid base64
RECURSIVE b64decode(_)
b64decode(t) ==
    IF Len(t) = 0 THEN << >>
    ELSE IF Len(t) < 4 \/ \E i \in 1..4 : Sextet(t[i]) < 0 THEN << -1 >>
    ELSE LET v1 == Sextet(t[1])
             v2 == Sextet(t[2])
             v3 == Sextet(t[3])
             v4 == Sextet(t[4])
             b1 == v1 * 4 + v2 \div 16
             b2 == (v2 % 16) * 16 + v3 \div 4
             b3 == (v3 % 4) * 64 + v4
             last == Len(t) = 4
         IN  IF t[3] = "=" /\ t[4] = "="
             THEN IF last /\ v2 % 16 = 0 THEN << b1 >> ELSE << -1 >>
             ELSE IF t[4] = "="
             THEN IF last /\ v3 % 4 = 0 THEN << b1, b2 >> ELSE << -1 >>
             ELSE IF t[1] = "=" \/ t[2] = "=" \/ t[3] = "=" THEN << -1 >>
             ELSE LET rest == b64decode(SubSeq(t, 5, Len(t)))
                  IN  IF rest = << -1 >> THEN rest ELSE << b1, b2, b3 >> \o rest

\* s[i .. i+Len(sub)-1] = sub
OccursAt(s, sub, i) ==
    /\ i >= 1
    /\ i + Len(sub) - 1 <= Len(s)
    /\ SubSeq(s, i, i + Len(sub) - 1) = sub

Occurrences(s, sub) ==
    { i \in 1..Len(s) : OccursAt(s, sub, i) }

\* the text after the ';base64,' separator (after the first one, if several)
PayloadOf(uri) ==
    LET occ == Occurrences(uri, Base64Sep)
    IN  IF occ = { } THEN << "?" >>
        ELSE LET i == CHOOSE k \in occ : \A j \in occ : k <= j
             IN  SubSeq(uri, i + Len(Base64Sep), Len(uri))

\* the text between 'data:' and the ';base64,' separator
MediaTypeOf(uri) ==
    LET occ == Occurrences(uri, Base64Sep)
    IN  IF occ = { } \/ ~OccursAt(uri, DataPrefix, 1) THEN << "?" >>
        ELSE LET i == CHOOSE k \in occ : \A j \in occ : k <= j
             IN  SubSeq(uri, Len(DataPrefix) + 1, i - 1)

\* the run has called convert_image_to_base64 and it has returned
Converted ==
    \/ pc = "output"
    \/ pc = "exit" /\ ~(stderr # << >> /\ stderr[1].tag = "Error: File not found")

\* ------------------------------------------------------------------------
\* C1
\* ------------------------------------------------------------------------

\* the file name of a path: what follows its last "/"
BaseName(p) ==
    SubSeq(p, rfind(p, "/") + 1, Len(p))

\* the suffix of a file name: from its last dot on, when a character other
\* than a dot stands before that dot; none otherwise
SuffixOf(name) ==
    IF \E i \in 1..Len(name) :
          /\ name[i] = "."
          /\ \A j \in (i+1)..Len(name) : name[j] # "."
          /\ \E j \in 1..(i-1) : name[j] # "."
    THEN SubSeq(name, rfind(name, "."), Len(name))
    ELSE << >>

\* the fixed table of the specification, on lower-case suffixes
MediaTable ==
    { << ExtPng, ImagePng >>, << ExtJpg, ImageJpeg >>, << ExtJpeg, ImageJpeg >>,
      << ExtGif, ImageGif >>, << ExtWebp, ImageWebp >>, << ExtBmp, ImageBmp >> }

ExpectedMediaType(p) ==
    LET suffix == [i \in 1..Len(SuffixOf(BaseName(p))) |-> LowerChar(SuffixOf(BaseName(p))[i])]
    IN  IF \E row \in MediaTable : row[1] = suffix
        THEN (CHOOSE row \in MediaTable : row[1] = suffix)[2]
        ELSE OctetStream

\* C1: the media type of every returned URI is the table's entry for the
\* lower-cased file-name suffix of the path, application/octet-stream for
\* any other suffix or none; it is the media type the same path written in
\* lower case gets, and the file's bytes play no part in it.
C1_MediaTypeFromSuffix ==
    base64_data.some =>
        /\ MediaTypeOf(base64_data.val) = ExpectedMediaType(image_path)
        /\ MediaTypeOf(base64_data.val) = mime_type(lower(image_path))
        /\ \A d \in ShortSeqs :
              MediaTypeOf(convert_image_to_base64(image_path,
                              [status |-> "ok", data |-> d]).ret.val)
                  = MediaTypeOf(base64_data.val)

\* an upper-case .PNG suffix was converted and got image/png
C1_Witness ==
    /\ base64_data.some
    /\ splitext_ext(image_path) = << ".","P","N","G" >>
    /\ MediaTypeOf(base64_data.val) = ImagePng

\* ------------------------------------------------------------------------
\* C2
\* ------------------------------------------------------------------------

\* C2: what follows ';base64,' in the returned URI decodes, with a standard
\* base64 decoder, to exactly the bytes of the file, the empty file included.
C2_RoundTrip ==
    base64_data.some => b64decode(PayloadOf(base64_data.val)) = file.data

\* the two bytes FF D8 were converted to a payload with one padding character
C2_Witness ==
    /\ base64_data.some
    /\ file.data = << 255, 216 >>
    /\ PayloadOf(base64_data.val) = << "/", "9", "g", "=" >>

\* ------------------------------------------------------------------------
\* C3
\* ------------------------------------------------------------------------

\* the two error kinds of the specification
ErrorKind(status) ==
    IF status = "missing" THEN "NotFound" ELSE "IOError"

\* C3 as stated: when the resource is absent or unreadable, what the caller
\* gets back from the call tells it the kind of the error.
C3_KindReportedToCaller ==
    (Converted /\ file.status # "ok") =>
        \A g \in Files(image_path, ShortSeqs) :
            (g.status # "ok"
             /\ convert_image_to_base64(image_path, g).ret = base64_data)
                => ErrorKind(g.status) = ErrorKind(file.status)

\* C3, amended: a call on an absent or unreadable resource prints the error
\* to stderr and returns None; a call returns either None or the URI of the
\* whole file, never a URI of part of it.
C3_NoneOrComplete ==
    Converted =>
        /\ file.status # "ok" =>
              /\ base64_data = None
              /\ stderr = << Line("Error", << OpenError(file.status) >>) >>
              /\ OpenError(file.status) \in
                    { "FileNotFoundError", "PermissionError", "IsADirectoryError", "OSError" }
        /\ file.status = "ok" =>
              /\ base64_data.some
              /\ \A i \in 1..Len(stderr) : stderr[i].tag # "Error"
        /\ base64_data.some =>
              /\ file.status = "ok"
              /\ OccursAt(base64_data.val, DataPrefix, 1)
              /\ b64decode(PayloadOf(base64_data.val)) = file.data

\* a read that failed after the file was opened returned None
C3_Witness ==
    /\ Converted
    /\ file.status = "readerr"
    /\ Len(file.data) > 0
    /\ base64_data = None
    /\ stderr = << Line("Error", << "OSError" >>) >>

\* ------------------------------------------------------------------------
\* C4
\* ------------------------------------------------------------------------

\* the URI reached the output path or the console
Delivered ==
    /\ base64_data.some
    /\ \/ out_file.content = Some(base64_data.val)
       \/ \E i \in 1..Len(stdout) : stdout[i].tag = "Base64 Image Data"

\* C4: a finished run has exit status 0 when the resource was encoded and
\* delivered and 1 when the resource is missing or unreadable; in that case
\* the output path was not opened or written and nothing was printed to
\* stdout.
C4_ExitStatus ==
    /\ pc # "exit" => exit_code = -1
    /\ pc = "exit" =>
          /\ exit_code \in { 0, 1 }
          /\ Delivered => exit_code = 0
          /\ exit_code = 0 => Delivered
          /\ file.status # "ok" =>
                /\ exit_code = 1
                /\ ~out_file.opened
                /\ out_file.content = None
                /\ stdout = << >>

\* a run with a writable output path ended with status 1 on an unreadable file
C4_Witness ==
    /\ pc = "exit"
    /\ file.status = "denied"
    /\ output = "writable"
    /\ exit_code = 1

\* ------------------------------------------------------------------------
\* C5
\* ------------------------------------------------------------------------

MediaTypes ==
    { ImagePng, ImageJpeg, ImageGif, ImageWebp, ImageBmp, OctetStream }

\* C5: every returned URI starts with 'data:', holds the separator ';base64,'
\* exactly once, and is 'data:' + media type + ';base64,' + payload.
C5_UriShape ==
    base64_data.some =>
        LET uri == base64_data.val
        IN  /\ OccursAt(uri, DataPrefix, 1)
            /\ Cardinality(Occurrences(uri, Base64Sep)) = 1
            /\ MediaTypeOf(uri) \in MediaTypes
            /\ uri = DataPrefix \o MediaTypeOf(uri) \o Base64Sep \o PayloadOf(uri)

\* a URI of an empty file (empty payload) with the fallback media type
C5_Witness ==
    /\ base64_data.some
    /\ file.data = << >>
    /\ base64_data.val = DataPrefix \o OctetStream \o Base64Sep

\* ------------------------------------------------------------------------
\* C6
\* ------------------------------------------------------------------------

AlphabetSet ==
    { StdAlphabet[i] : i \in 1..64 }

\* C6: every readable file is encoded, whatever its bytes, and the payload
\* is made of symbols of the standard alphabet followed by at most two '=',
\* four symbols for every three bytes begun, with no newline in it.
C6_PayloadAlphabet ==
    /\ (Converted /\ file.status = "ok") => base64_data.some
    /\ base64_data.some =>
          LET t == PayloadOf(base64_data.val)
              n == Len(file.data)
          IN  /\ \A i \in 1..Len(t) : t[i] \in AlphabetSet \cup { "=" }
              /\ \A i \in 1..Len(t) : t[i] # "\n"
              /\ \A i \in 1..Len(t) : t[i] = "=" => i > Len(t) - 2 /\ n % 3 # 0
              /\ Len(t) = 4 * ((n + 2) \div 3)

\* a file as long as the bound was encoded, bytes 0 and 255 among them
C6_Witness ==
    /\ base64_data.some
    /\ Len(file.data) >= 3
    /\ \E i \in 1..Len(file.data) : file.data[i] = 255
    /\ \E i \in 1..Len(file.data) : file.data[i] = 0

\* ------------------------------------------------------------------------
\* convert_image_to_base64 called repeatedly, the files changing in between
\* ------------------------------------------------------------------------

\* how many calls a run of the library user makes
MaxCalls ==
    3

LibPaths ==
    { << "p",".","J","P","G" >>, << "a",".","b","i","n" >> }

LibFiles ==
    { [status |-> "ok", data |-> << 255, 216 >>],
      [status |-> "ok", data |-> << 0 >>],
      [status |-> "missing", data |-> << >>] }

LibInit ==
    /\ lib_fs \in [LibPaths -> LibFiles]
    /\ lib_calls = << >>

\* one call: the file as it is now is converted and the outcome recorded
Lib_Call(p) ==
    /\ Len(lib_calls) < MaxCalls
    /\ LET r == convert_image_to_base64(p, lib_fs[p])
       IN  lib_calls' = Append(lib_calls,
                               [path |-> p, file |-> lib_fs[p], ret |-> r.ret, err |-> r.err])
    /\ UNCHANGED lib_fs
    /\ UNCHANGED << encVars, chat, img >>

\* between two calls a file is written, replaced or removed
Env_Write(p, f) ==
    /\ Len(lib_calls) < MaxCalls
    /\ lib_fs[p] # f
    /\ lib_fs' = [lib_fs EXCEPT ![p] = f]
    /\ UNCHANGED lib_calls
    /\ UNCHANGED << encVars, chat, img >>

LibNext ==
    \/ \E p \in LibPaths : Lib_Call(p)
    \/ \E p \in LibPaths, f \in LibFiles : Env_Write(p, f)

MaxQueries ==
    3

\* the lines a user types
ScriptLines ==
    { << "h","i" >>,
      << " ","Q","u","i","t"," " >>,
      << "e","x","i","t" >>,
      << "q","u","i","t","s" >> }

Scripts ==
    SeqsUpTo(ScriptLines, MaxQueries)

IsSpace(c) ==
    c \in { " ", "\t", "\n" }

\* str.strip()
RECURSIVE strip(_)
strip(t) ==
    IF Len(t) = 0 THEN t
    ELSE IF IsSpace(t[1]) THEN strip(SubSeq(t, 2, Len(t)))
    ELSE IF IsSpace(t[Len(t)]) THEN strip(SubSeq(t, 1, Len(t) - 1))
    ELSE t

\* query.lower() in ['quit', 'exit']
is_quit(query) ==
    lower(query) \in { << "q","u","i","t" >>, << "e","x","i","t" >> }

\* an entry of self.messages
Msg(role, content, tool_calls, tool_call_id) ==
    [role |-> role, content |-> content, tool_calls |-> tool_calls,
     tool_call_id |-> tool_call_id]

\* the fixed content of a tool message whose tool call raised
ToolErrorText ==
    "Error executing tool call"

\* what chat.completions.create can answer: the message's tool_calls (None,
\* or the ids of the calls) and the arguments text of its first tool call
Completions ==
    { [tool_calls |-> None, args |-> "empty"],
      [tool_calls |-> Some(<< >>), args |-> "empty"] }
    \cup { [tool_calls |-> Some(ids), args |-> a] :
              ids \in { << "call_1" >>, << "call_2", "call_1" >> },
              a \in { "empty", "valid", "invalid" } }

\* one external call of the operation in progress
Call(site, ok) ==
    [site |-> site, ok |-> ok]

ChatIdle ==
    chat = [pc |-> "not_run", stdin |-> << >>, messages |-> << >>,
            content |-> Msg("none", << >>, None, ""), final_text |-> << >>,
            error |-> "none", out |-> << >>, calls |-> << >>]

\* main(), line 179: MCPClient() with an empty history; the user's script
ChatInit ==
    \E script \in Scripts :
        chat = [pc |-> "connect", stdin |-> script, messages |-> << >>,
                content |-> Msg("none", << >>, None, ""), final_text |-> << >>,
                error |-> "none", out |-> << >>, calls |-> << >>]

chatOthers ==
    << encVars, libVars, img >>

\* main(), lines 180-184, and connect_to_server: a failure goes to the finally
Chat_Connect ==
    /\ chat.pc = "connect"
    /\ \E ok \in BOOLEAN :
          chat' = [chat EXCEPT
                      !.pc = IF ok THEN "input" ELSE "cleanup",
                      !.error = IF ok THEN "none" ELSE "ConnectError",
                      !.out = IF ok THEN << "Connected to server with tools",
                                            "MCP Client Started!" >>
                              ELSE << >>]
    /\ UNCHANGED chatOthers

\* chat_loop, lines 162-166, and process_query, lines 100-103: a line is read;
\* the end of the input raises EOFError, quit or exit leaves the loop, any
\* other line starts process_query, which appends the user's message
Chat_Input ==
    /\ chat.pc = "input"
    /\ IF chat.stdin = << >>
       THEN chat' = [chat EXCEPT !.pc = "except", !.error = "EOFError",
                                 !.out = << >>, !.calls = << >>]
       ELSE LET query == strip(chat.stdin[1])
            IN  IF is_quit(query)
                THEN chat' = [chat EXCEPT !.pc = "cleanup", !.stdin = Tail(@),
                                          !.error = "none", !.out = << >>,
                                          !.calls = << >>]
                ELSE chat' = [chat EXCEPT
                                 !.pc = "list_tools", !.stdin = Tail(@),
                                 !.messages = Append(@, Msg("user", query, None, "")),
                                 !.error = "none", !.out = << >>, !.calls = << >>,
                                 !.final_text = << >>]
    /\ UNCHANGED chatOthers

\* process_query, lines 106-107: list_tools, and convert_tool_format on each
\* tool, which raises KeyError on a schema without "required"
Chat_ListTools ==
    /\ chat.pc = "list_tools"
    /\ \E outcome \in { "ok", "raise", "no_required" } :
          chat' = [chat EXCEPT
                      !.calls = Append(@, Call("list_tools", outcome # "raise")),
                      !.pc = IF outcome = "ok" THEN "create" ELSE "except",
                      !.error = CASE outcome = "ok" -> "none"
                                  [] outcome = "raise" -> "list_tools failed"
                                  [] OTHER -> "KeyError"]
    /\ UNCHANGED chatOthers

\* process_query, lines 110-124 and 150-153: the first completion request;
\* its message is appended, then its first tool call is read
Chat_Create ==
    /\ chat.pc = "create"
    /\ \/ chat' = [chat EXCEPT !.calls = Append(@, Call("create", FALSE)),
                               !.pc = "except", !.error = "create failed"]
       \/ \E r \in Completions :
             LET message == Msg("assistant", << "text" >>, r.tool_calls, "")
                 logged  == [chat EXCEPT !.calls = Append(@, Call("create", TRUE)),
                                         !.messages = Append(@, message),
                                         !.content = message]
             IN  chat' =
                    IF ~r.tool_calls.some
                    THEN [logged EXCEPT !.pc = "print", !.final_text = << "text" >>]
                    ELSE IF Len(r.tool_calls.val) = 0
                    THEN [logged EXCEPT !.pc = "except", !.error = "IndexError"]
                    ELSE IF r.args = "invalid"
                    THEN [logged EXCEPT !.pc = "except", !.error = "JSONDecodeError"]
                    ELSE [logged EXCEPT !.pc = "call_tool"]
    /\ UNCHANGED chatOthers

\* process_query, lines 127-140: the tool call; when it raises, the error is
\* printed and the tool message carries the fixed text
Chat_CallTool ==
    /\ chat.pc = "call_tool"
    /\ \E ok \in BOOLEAN :
          chat' = [chat EXCEPT
                      !.calls = Append(@, Call("call_tool", ok)),
                      !.final_text = IF ok THEN Append(@, "[Calling tool]") ELSE @,
                      !.out = IF ok THEN @ ELSE Append(@, "Error calling tool"),
                      !.messages = Append(@,
                          Msg("tool",
                              << IF ok THEN "tool result" ELSE ToolErrorText >>,
                              None,
                              chat.content.tool_calls.val[1])),
                      !.pc = "followup"]
    /\ UNCHANGED chatOthers

\* a faulty variant of Chat_Followup: a failed follow-up request is sent again
Chat_Followup_retry ==
    /\ chat.pc = "followup"
    /\ \E ok \in BOOLEAN :
          chat' = [chat EXCEPT
                      !.calls = Append(@, Call("followup", ok)),
                      !.final_text = IF ok THEN Append(@, "text") ELSE @,
                      !.pc = IF ok \/ Len(chat.calls) > 4 THEN "print" ELSE "followup"]
    /\ UNCHANGED chatOthers

\* process_query, lines 143-149 and 153: the follow-up completion request
Chat_Followup ==
    /\ chat.pc = "followup"
    /\ \E ok \in BOOLEAN :
          chat' = [chat EXCEPT
                      !.calls = Append(@, Call("followup", ok)),
                      !.final_text = IF ok THEN Append(@, "text") ELSE @,
                      !.pc = IF ok THEN "print" ELSE "except",
                      !.error = IF ok THEN "none" ELSE "followup failed"]
    /\ UNCHANGED chatOthers

\* chat_loop, lines 167-168: the result of process_query is printed
Chat_Print ==
    /\ chat.pc = "print"
    /\ chat' = [chat EXCEPT !.out = Append(@, "Result"), !.pc = "input"]
    /\ UNCHANGED chatOthers

\* chat_loop, lines 170-171: the exception is printed and the loop goes on
Chat_Except ==
    /\ chat.pc = "except"
    /\ chat' = [chat EXCEPT !.out = Append(@, "Error: " \o chat.error), !.pc = "input"]
    /\ UNCHANGED chatOthers

\* main(), lines 183-184, and cleanup
Chat_Cleanup ==
    /\ chat.pc = "cleanup"
    /\ chat' = [chat EXCEPT !.pc = "exited"]
    /\ UNCHANGED chatOthers

\* ------------------------------------------------------------------------
\* openrouter-image-python.py: main()
\* ------------------------------------------------------------------------

\* mimetypes.guess_type(IMAGE_PATH)[0] for IMAGE_PATH = "path/to/your/image.jpg"
ImagePathMime ==
    ImageJpeg

\* image_to_base64(IMAGE_PATH) on a readable file
image_to_base64(data) ==
    data_uri(ImagePathMime, decode_utf8(b64encode(data)))

ImgFiles ==
    { [status |-> "ok", data |-> d] : d \in ShortSeqs }
    \cup { [status |-> "missing", data |-> << >>] }

ImgIdle ==
    img = [pc |-> "not_run", file |-> [status |-> "missing", data |-> << >>],
           base64_image |-> None, out |-> << >>, calls |-> << >>]

ImgInit ==
    \E f \in ImgFiles :
        img = [pc |-> "convert", file |-> f, base64_image |-> None,
               out |-> << >>, calls |-> << >>]

imgOthers ==
    << encVars, libVars, chat >>

\* main(), lines 165-168 and 179-180, and image_to_base64: a failure is
\* printed, raised again and ends main
Img_Convert ==
    /\ img.pc = "convert"
    /\ IF img.file.status = "ok"
       THEN img' = [img EXCEPT
                       !.base64_image = Some(image_to_base64(img.file.data)),
                       !.out = Append(@, "Image converted to base64 successfully"),
                       !.pc = "direct"]
       ELSE img' = [img EXCEPT
                       !.out = @ \o << "Error converting image to base64",
                                       "Error in main function" >>,
                       !.pc = "done"]
    /\ UNCHANGED imgOthers

\* send_image_direct_api: one requests.post; a connection error, an error
\* status (raise_for_status) and a body without choices are all caught and
\* printed. The "API error details" line is never printed: an exception
\* without a response has none, and a response with an error status is falsy.
Img_Direct ==
    /\ img.pc = "direct"
    /\ \E outcome \in { "ok", "connection_error", "http_error", "bad_body" } :
          img' = [img EXCEPT
                     !.calls = << Call("post", outcome = "ok") >>,
                     !.out = @ \o << "Sending image via direct API call...",
                                     IF outcome = "ok"
                                     THEN "Response from direct API"
                                     ELSE "Error sending image via direct API" >>,
                     !.pc = "sdk"]
    /\ UNCHANGED imgOthers

\* send_image_openai_sdk: one chat.completions.create, its failure printed
Img_Sdk ==
    /\ img.pc = "sdk"
    /\ \E ok \in BOOLEAN :
          img' = [img EXCEPT
                     !.calls = << Call("sdk_create", ok) >>,
                     !.out = @ \o << "Sending image via OpenAI SDK...",
                                     IF ok THEN "Response from OpenAI SDK"
                                     ELSE "Error sending image via OpenAI SDK" >>,
                     !.pc = "done"]
    /\ UNCHANGED imgOthers

\* ------------------------------------------------------------------------
\* C8
\* ------------------------------------------------------------------------

\* the exception a failed call of a site raises in process_query
ErrorOf(site) ==
    site \o " failed"

\* no call site is used twice within one operation
NoRetry(calls) ==
    \A i, j \in 1..Len(calls) : calls[i].site = calls[j].site => i = j

\* every failed call has been printed, or is the exception on its way to the
\* handler of chat_loop; a query whose exception slot is empty has its result
\* printed
ChatSurfaced ==
    /\ \A i \in 1..Len(chat.calls) :
          ~chat.calls[i].ok =>
              IF chat.calls[i].site = "call_tool"
              THEN \E k \in 1..Len(chat.out) : chat.out[k] = "Error calling tool"
              ELSE /\ chat.error = ErrorOf(chat.calls[i].site)
                   /\ \/ chat.pc = "except"
                      \/ /\ chat.pc = "input"
                         /\ chat.out # << >>
                         /\ chat.out[Len(chat.out)] = "Error: " \o chat.error
    /\ (chat.pc = "input" /\ chat.calls # << >> /\ chat.error = "none")
          => (chat.out # << >> /\ chat.out[Len(chat.out)] = "Result")

\* the image script calls nothing without a converted image, and prints the
\* response or the error of each call
ImgSurfaced ==
    /\ img.calls # << >> => img.base64_image.some
    /\ \A i \in 1..Len(img.calls) :
          LET c == img.calls[i]
              line == CASE c.site = "post" /\ c.ok -> "Response from direct API"
                        [] c.site = "post" /\ ~c.ok -> "Error sending image via direct API"
                        [] c.site = "sdk_create" /\ c.ok -> "Response from OpenAI SDK"
                        [] OTHER -> "Error sending image via OpenAI SDK"
          IN  img.out # << >> /\ img.out[Len(img.out)] = line

C9_LoopEnds ==
    (chat.pc # "not_run" /\ chat.stdin = << >>) ~> (chat.pc = "exited")

\* ------------------------------------------------------------------------
\* C10
\* ------------------------------------------------------------------------

HasToolCalls(m) ==
    m.role = "assistant" /\ m.tool_calls.some /\ Len(m.tool_calls.val) > 0

\* no process_query is under way
BetweenQueries ==
    chat.pc \in { "input", "print", "except", "cleanup", "exited" }

\* C10: between queries, every assistant message that carries tool calls is
\* immediately followed by one tool message with the id of its first tool
\* call, and every tool message immediately follows such a message.
C10_WellPaired ==
    BetweenQueries =>
        LET h == chat.messages
        IN  /\ \A i \in 1..Len(h) :
                  HasToolCalls(h[i]) =>
                      /\ i < Len(h)
                      /\ h[i + 1].role = "tool"
                      /\ h[i + 1].tool_call_id = h[i].tool_calls.val[1]
            /\ \A i \in 1..Len(h) :
                  h[i].role = "tool" => (i > 1 /\ HasToolCalls(h[i - 1]))

\* ------------------------------------------------------------------------
\* Specifications
\* ------------------------------------------------------------------------

EncIdle ==
    /\ image_path = << >>
    /\ file = [status |-> "missing", data |-> << >>]
    /\ output = "none"
    /\ pc = "not_run"
    /\ base64_data = None
    /\ stderr = << >>
    /\ stdout = << >>
    /\ out_file = [opened |-> FALSE, content |-> None]
    /\ exit_code = -1

LibIdle ==
    /\ lib_fs = [p \in LibPaths |-> [status |-> "missing", data |-> << >>]]
    /\ lib_calls = << >>

ExamplesIdle ==
    /\ ChatIdle
    /\ ImgIdle

\* one run of the command-line converter
Init ==
    EncInit /\ LibIdle /\ ExamplesIdle

Next ==
    EncNext

Spec ==
    Init /\ [][Next]_vars

\* a program that calls convert_image_to_base64 several times
InitLib ==
    EncIdle /\ LibInit /\ ExamplesIdle

NextLib ==
    LibNext

SpecLib ==
    InitLib /\ [][NextLib]_vars

\* one run of one of the example scripts: examples/python_example.py or
\* openrouter-image-python.py
InitExamples ==
    /\ EncIdle
    /\ LibIdle
    /\ \/ ChatInit /\ ImgIdle
       \/ ChatIdle /\ ImgInit

NextExamples ==
    \/ Chat_Connect
    \/ Chat_Input
    \/ Chat_ListTools
    \/ Chat_Create
    \/ Chat_CallTool
    \/ Chat_Followup
    \/ Chat_Print
    \/ Chat_Except
    \/ Chat_Cleanup
    \/ Img_Convert
    \/ Img_Direct
    \/ Img_Sdk

SpecExamples ==
    InitExamples /\ [][NextExamples]_vars

\* every step of the scripts is taken in the end: the interpreter runs them
\* and input() returns or raises
FairSpecExamples ==
    SpecExamples /\ WF_vars(NextExamples)
====
